---- MODULE Spec2Model ----
(***************************************************************************)
(* maintainercollector/main.go: the aggregation of the per-project         *)
(* MAINTAINERS declarations into one combined model.                       *)
(*                                                                         *)
(* A Go string is modelled as the sequence of its bytes (ASCII codes), so  *)
(* that strings.ToLower, strings.SplitN and the byte-wise order used by    *)
(* sort.Strings are computed, not assumed.                                 *)
(***************************************************************************)
EXTENDS Integers, Sequences, FiniteSets

VARIABLES
    pc,           \* where main is: "loop", "encode", "write", "done", "fatal"
    i,            \* index into projects of the next project of the loop
    Org,          \* projectMaintainers.Org: group name -> people list
    People,       \* projectMaintainers.People: nickname -> person
    maintainers,  \* what getMaintainers returned in the last iteration
    err,          \* whether getMaintainers returned an error there
    exitCode,     \* -1 while running, then the exit status of the process
    cause,        \* the step whose failure ended the run, "" if none
    visited,      \* history: the identifiers getMaintainers was called for
    lastRec,      \* history: nickname -> the persons its last declarer gave it
    everRec,      \* history: nickname -> the persons any declarer gave it
    curSeen,      \* history: the curators strings decoded so far
    docsSeen,     \* history: the docs-maintainers strings decoded so far
    used,         \* the nickname entries decoded so far
    slice,        \* SpecDedupe: the argument of removeDuplicates
    uniqs,        \* SpecDedupe: its result
    ident,        \* SpecSplit: the argument of getProjectOrg
    split         \* SpecSplit: its result

vars == <<pc, i, Org, People, maintainers, err, exitCode, cause, visited, lastRec,
          everRec, curSeen, docsSeen, used, slice, uniqs, ident, split>>

\* the history of the decoded inputs
histVars == <<lastRec, everRec, curSeen, docsSeen, used>>

\* the variables of the specifications of the two functions
callVars == <<slice, uniqs, ident, split>>

----------------------------------------------------------------------------
(* Bounds of the model.                                                    *)

\* total number of nickname entries (list elements and person keys) decoded
\* over one run
MaxEntries == 2
\* length of the slice handed to removeDuplicates in SpecDedupe
MaxSlice == 3
\* length of the identifier handed to getProjectOrg in SpecSplit
MaxIdLen == 4

----------------------------------------------------------------------------
(* Strings.                                                                *)

Slash == 47

\* "docker"
defaultOrg == <<100, 111, 99, 107, 101, 114>>

\* "Curators"
Curators == <<67, 117, 114, 97, 116, 111, 114, 115>>

\* "Docs maintainers"
DocsMaintainers ==
    <<68, 111, 99, 115, 32, 109, 97, 105, 110, 116, 97, 105, 110, 101, 114, 115>>

\* strings.ToLower on one ASCII byte
LowerByte(c) == IF c >= 65 /\ c <= 90 THEN c + 32 ELSE c

\* strings.ToLower
ToLower(s) == [k \in 1..Len(s) |-> LowerByte(s[k])]

\* ToLower over a list of strings
ToLower2(l) == [k \in 1..Len(l) |-> ToLower(l[k])]

\* the order of Go strings (byte-wise lexicographic), as sort.Strings uses it
RECURSIVE StrLess(_, _)
StrLess(a, b) ==
    IF b = <<>> THEN FALSE
    ELSE IF a = <<>> THEN TRUE
    ELSE IF Head(a) < Head(b) THEN TRUE
    ELSE IF Head(a) > Head(b) THEN FALSE
    ELSE StrLess(Tail(a), Tail(b))

\* one insertion into an ascending list
RECURSIVE Insert(_, _)
Insert(x, l) ==
    IF l = <<>> THEN <<x>>
    ELSE IF StrLess(Head(l), x) THEN <<Head(l)>> \o Insert(x, Tail(l))
    ELSE <<x>> \o l

\* SortStrings without the sort
SortStringsNoop(l) == l

\* sort.Strings: the ascending arrangement of the list's elements
RECURSIVE SortStrings(_)
SortStrings(l) ==
    IF l = <<>> THEN <<>> ELSE Insert(Head(l), SortStrings(Tail(l)))

----------------------------------------------------------------------------
(* removeDuplicates and getProjectOrg.                                     *)

\* the loop of removeDuplicates: seens is the map of seen strings, uniqs the
\* first occurrences in order
RECURSIVE UniqLoop(_, _, _)
UniqLoop(s, seens, u) ==
    IF s = <<>> THEN u
    ELSE IF Head(s) \in seens THEN UniqLoop(Tail(s), seens, u)
    ELSE UniqLoop(Tail(s), seens \cup {Head(s)}, Append(u, Head(s)))

\* removeDuplicates that folds case before comparing
removeDuplicatesFold(s) == SortStrings(UniqLoop(ToLower2(s), {}, <<>>))

removeDuplicates(s) == SortStrings(UniqLoop(s, {}, <<>>))

\* the positions of "/" in s
SlashAt(s) == {k \in 1..Len(s) : s[k] = Slash}

Min(S) == CHOOSE x \in S : \A y \in S : x <= y

\* strings.SplitN(project, "/", 2)
SplitN2(s) ==
    IF SlashAt(s) = {} THEN <<s>>
    ELSE LET k == Min(SlashAt(s))
         IN  <<SubSeq(s, 1, k - 1), SubSeq(s, k + 1, Len(s))>>

\* getProjectOrg that splits at every "/" (strings.Split): an identifier with
\* more than one "/" has more than two parts and is left whole
getProjectOrgSplitAll(project) ==
    IF Cardinality(SlashAt(project)) = 1
    THEN <<SplitN2(project)[1], SplitN2(project)[2]>>
    ELSE <<defaultOrg, project>>

\* getProjectOrg: <<org, project>>
getProjectOrg(project) ==
    LET p == SplitN2(project)
    IN  IF Len(p) = 2 THEN <<p[1], p[2]>> ELSE <<defaultOrg, project>>

----------------------------------------------------------------------------
(* The configuration and the inputs.                                       *)

\* "cli", "moby/moby", "swarm": three entries of the configured list
projects ==
    << <<99, 108, 105>>,
       <<109, 111, 98, 121, 47, 109, 111, 98, 121>>,
       <<115, 119, 97, 114, 109>> >>

\* the nicknames of the decoded files: "Tom", "amy", "tom"
Nicks == { <<84, 111, 109>>, <<97, 109, 121>>, <<116, 111, 109>> }

\* the person records, opaque to the program
Persons == {"p", "q"}

ListsUpTo(n) == UNION {[1..k -> Nicks] : k \in 0..n}

\* a nil *Org
NilOrg == [present |-> FALSE, People |-> <<>>]

\* the *Org values a decoded file can hold with at most n people
OrgPtrs(n) == {NilOrg} \cup {[present |-> TRUE, People |-> l] : l \in ListsUpTo(n)}

\* the person mappings a decoded file can hold with at most n entries
PersonMaps(n) ==
    UNION {[ks -> Persons] : ks \in {x \in SUBSET Nicks : Cardinality(x) <= n}}

\* the zero value of MaintainersDepreciated
ZeroDecl ==
    [Maintainers |-> NilOrg, CoreMaintainers |-> NilOrg, DocsMaintainers |-> NilOrg,
     Curators |-> NilOrg, People |-> <<>>]

\* the nickname entries of a decoded file
Entries(d) ==
    Len(d.Maintainers.People) + Len(d.CoreMaintainers.People)
    + Len(d.DocsMaintainers.People) + Len(d.Curators.People)
    + Cardinality(DOMAIN d.People)

----------------------------------------------------------------------------
(* One iteration of the loop of main.                                      *)

\* m with key k set to v
Put(m, k, v) == [x \in DOMAIN m \cup {k} |-> IF x = k THEN v ELSE m[x]]

Range(l) == {l[k] : k \in 1..Len(l)}

\* the source list that merges the primary and the legacy group
SelectPeopleBoth(d) ==
    IF d.Maintainers.present /\ d.CoreMaintainers.present
    THEN d.Maintainers.People \o d.CoreMaintainers.People
    ELSE IF d.Maintainers.present THEN d.Maintainers.People
    ELSE IF d.CoreMaintainers.present THEN d.CoreMaintainers.People
    ELSE <<>>

\* p.People as chosen from the decoded file
SelectPeople(d) ==
    IF d.Maintainers.present THEN d.Maintainers.People
    ELSE IF d.CoreMaintainers.present THEN d.CoreMaintainers.People
    ELSE <<>>

\* the lowercase pass and the sort over p.People
Normalize(l) == SortStrings(ToLower2(l))

\* projectMaintainers.Org[project] = p
StoreGroup(O, id, d) == Put(O, getProjectOrg(id)[2], Normalize(SelectPeople(d)))

\* the append to a pseudo-group, when the decoded file has the group
AppendGroup(O, name, ptr) ==
    IF ptr.present THEN Put(O, name, O[name] \o ptr.People) ELSE O

\* the groups after the iteration of project id with decoded file d
MergeGroups(O, id, d) ==
    AppendGroup(AppendGroup(StoreGroup(O, id, d), DocsMaintainers, d.DocsMaintainers),
                Curators, d.Curators)

\* the lowercase forms of the keys of m
LowerKeys(m) == {ToLower(k) : k \in DOMAIN m}

\* the persons that m declares for the lowercase nickname n
Declared(m, n) == {m[k] : k \in {x \in DOMAIN m : ToLower(x) = n}}

\* a person mapping that keeps the entry of the first declarer
MergePeopleFirst(P, m) ==
    {[n \in DOMAIN P \cup LowerKeys(m) |->
        IF n \in DOMAIN P THEN P[n] ELSE m[f[n]]] :
     f \in {g \in [LowerKeys(m) -> DOMAIN m] : \A n \in LowerKeys(m) : ToLower(g[n]) = n}}

\* the person mappings the range over maintainers.People can leave: the
\* iteration order of a Go map is unspecified, so that of two keys with one
\* lowercase form either can be written last
MergePeople(P, m) ==
    {[n \in DOMAIN P \cup LowerKeys(m) |->
        IF n \in LowerKeys(m) THEN m[f[n]] ELSE P[n]] :
     f \in {g \in [LowerKeys(m) -> DOMAIN m] : \A n \in LowerKeys(m) : ToLower(g[n]) = n}}

\* history of the last declarers
NoteDeclared(L, m) ==
    [n \in DOMAIN L \cup LowerKeys(m) |->
        IF n \in LowerKeys(m) THEN Declared(m, n) ELSE L[n]]

\* history of all declarers
NoteEver(E, m) ==
    [n \in DOMAIN E \cup LowerKeys(m) |->
        (IF n \in DOMAIN E THEN E[n] ELSE {})
        \cup (IF n \in LowerKeys(m) THEN Declared(m, n) ELSE {})]

\* the state of main before the loop
InitMain ==
    /\ i = 1
    /\ Org = [k \in {Curators, DocsMaintainers} |-> <<>>]
    /\ People = <<>>
    /\ maintainers = ZeroDecl
    /\ err = FALSE
    /\ exitCode = -1
    /\ cause = ""
    /\ visited = <<>>
    /\ lastRec = <<>>
    /\ everRec = <<>>
    /\ curSeen = {}
    /\ docsSeen = {}

Init ==
    /\ InitMain
    /\ pc = "loop"
    /\ used = 0
    /\ slice = <<>>
    /\ uniqs = <<>>
    /\ ident = <<>>
    /\ split = <<>>

\* an iteration in which getMaintainers fails and that ends the run
IterFailFatal ==
    /\ pc = "loop"
    /\ i <= Len(projects)
    /\ err' = TRUE
    /\ maintainers' = ZeroDecl
    /\ visited' = Append(visited, projects[i])
    /\ i' = i + 1
    /\ pc' = "fatal"
    /\ exitCode' = 1
    /\ UNCHANGED <<Org, People, cause, histVars, callVars>>

\* an iteration in which getMaintainers fails and that stores an empty group
IterFailStores ==
    /\ pc = "loop"
    /\ i <= Len(projects)
    /\ err' = TRUE
    /\ maintainers' = ZeroDecl
    /\ visited' = Append(visited, projects[i])
    /\ i' = i + 1
    /\ Org' = Put(Org, getProjectOrg(projects[i])[2], <<>>)
    /\ UNCHANGED <<pc, People, exitCode, cause, histVars, callVars>>

\* getMaintainers fails (the fetch, the read or the decode): log and continue
IterFail ==
    /\ pc = "loop"
    /\ i <= Len(projects)
    /\ err' = TRUE
    /\ maintainers' = ZeroDecl
    /\ visited' = Append(visited, projects[i])
    /\ i' = i + 1
    /\ UNCHANGED <<pc, Org, People, exitCode, cause, histVars, callVars>>

\* the body of the loop for identifier id when getMaintainers succeeds with a
\* decoded file d
Merge(id) ==
    \E m \in OrgPtrs(MaxEntries - used) :
    \E c \in OrgPtrs(MaxEntries - used - Len(m.People)) :
    \E dm \in OrgPtrs(MaxEntries - used - Len(m.People) - Len(c.People)) :
    \E cu \in OrgPtrs(MaxEntries - used - Len(m.People) - Len(c.People)
                         - Len(dm.People)) :
    \E pm \in PersonMaps(MaxEntries - used - Len(m.People) - Len(c.People)
                            - Len(dm.People) - Len(cu.People)) :
       LET d == [Maintainers |-> m, CoreMaintainers |-> c, DocsMaintainers |-> dm,
                 Curators |-> cu, People |-> pm]
       IN  /\ maintainers' = d
           /\ err' = FALSE
           /\ visited' = Append(visited, id)
           /\ Org' = MergeGroups(Org, id, d)
           /\ People' \in MergePeople(People, d.People)
           /\ lastRec' = NoteDeclared(lastRec, d.People)
           /\ everRec' = NoteEver(everRec, d.People)
           /\ curSeen' = curSeen \cup Range(d.Curators.People)
           /\ docsSeen' = docsSeen \cup Range(d.DocsMaintainers.People)
           /\ used' = used + Entries(d)

\* getMaintainers succeeds with a decoded file, which is merged
IterMerge ==
    /\ pc = "loop"
    /\ i <= Len(projects)
    /\ Merge(projects[i])
    /\ i' = i + 1
    /\ UNCHANGED <<pc, exitCode, cause, callVars>>

\* the pseudo-groups after the loop
DedupeGroups(O) ==
    Put(Put(O, Curators, removeDuplicates(O[Curators])),
        DocsMaintainers, removeDuplicates(O[DocsMaintainers]))

\* after the loop: removeDuplicates over the two pseudo-groups
Dedupe ==
    /\ pc = "loop"
    /\ i > Len(projects)
    /\ Org' = DedupeGroups(Org)
    /\ pc' = "encode"
    /\ UNCHANGED <<i, People, maintainers, err, exitCode, cause, visited, histVars,
                   callVars>>

\* the encoder returns no error
EncodeOk ==
    /\ pc = "encode"
    /\ pc' = "write"
    /\ UNCHANGED <<i, Org, People, maintainers, err, exitCode, cause, visited,
                   histVars, callVars>>

\* the encoder returns an error: logrus.Fatalf
EncodeFail ==
    /\ pc = "encode"
    /\ pc' = "fatal"
    /\ exitCode' = 1
    /\ cause' = "encode"
    /\ UNCHANGED <<i, Org, People, maintainers, err, visited, histVars, callVars>>

\* ioutil.WriteFile returns no error: main returns
WriteOk ==
    /\ pc = "write"
    /\ pc' = "done"
    /\ exitCode' = 0
    /\ UNCHANGED <<i, Org, People, maintainers, err, cause, visited, histVars,
                   callVars>>

\* ioutil.WriteFile returns an error: logrus.Fatal
WriteFail ==
    /\ pc = "write"
    /\ pc' = "fatal"
    /\ exitCode' = 1
    /\ cause' = "write"
    /\ UNCHANGED <<i, Org, People, maintainers, err, visited, histVars, callVars>>

Next ==
    \/ IterFail
    \/ IterMerge
    \/ Dedupe
    \/ EncodeOk
    \/ EncodeFail
    \/ WriteOk
    \/ WriteFail

Spec == Init /\ [][Next]_vars

----------------------------------------------------------------------------
(* removeDuplicates on its own: any slice, then its result once more.      *)

\* the strings of the slices: "", "a", "am" and the nicknames
Words == Nicks \cup { <<>>, <<97>>, <<97, 109>> }

InitDedupe ==
    /\ InitMain
    /\ pc = "call"
    /\ used = 0
    /\ slice \in UNION {[1..k -> Words] : k \in 0..MaxSlice}
    /\ uniqs = <<>>
    /\ ident = <<>>
    /\ split = <<>>

\* uniqs := removeDuplicates(slice)
CallRemoveDuplicates ==
    /\ pc = "call"
    /\ uniqs' = removeDuplicates(slice)
    /\ pc' = "ret"
    /\ UNCHANGED <<i, Org, People, maintainers, err, exitCode, cause, visited,
                   histVars, slice, ident, split>>

\* the result handed to removeDuplicates again
CallAgain ==
    /\ pc = "ret"
    /\ slice' = uniqs
    /\ uniqs' = removeDuplicates(uniqs)
    /\ pc' = "again"
    /\ UNCHANGED <<i, Org, People, maintainers, err, exitCode, cause, visited,
                   histVars, ident, split>>

NextDedupe ==
    \/ CallRemoveDuplicates
    \/ CallAgain

SpecDedupe == InitDedupe /\ [][NextDedupe]_vars

----------------------------------------------------------------------------
(* getProjectOrg on its own: any identifier, then the iteration of the     *)
(* loop for that identifier.                                               *)

\* the bytes of the identifiers: "/", "a", "b"
IdBytes == {Slash, 97, 98}

InitSplit ==
    /\ InitMain
    /\ pc = "call"
    /\ used = MaxEntries - 1
    /\ slice = <<>>
    /\ uniqs = <<>>
    /\ ident \in UNION {[1..k -> IdBytes] : k \in 0..MaxIdLen}
    /\ split = <<>>

\* split := getProjectOrg(ident)
CallGetProjectOrg ==
    /\ pc = "call"
    /\ split' = getProjectOrg(ident)
    /\ pc' = "ret"
    /\ UNCHANGED <<i, Org, People, maintainers, err, exitCode, cause, visited,
                   histVars, slice, uniqs, ident>>

\* the iteration of the loop for ident, getMaintainers succeeding
IterMergeIdent ==
    /\ pc = "ret"
    /\ Merge(ident)
    /\ pc' = "stored"
    /\ UNCHANGED <<i, exitCode, cause, callVars>>

NextSplit ==
    \/ CallGetProjectOrg
    \/ IterMergeIdent

SpecSplit == InitSplit /\ [][NextSplit]_vars

----------------------------------------------------------------------------
(* The properties.                                                         *)

Tom == <<84, 111, 109>>
amy == <<97, 109, 121>>
tom == <<116, 111, 109>>

IsLower(s) == \A k \in 1..Len(s) : ~(s[k] >= 65 /\ s[k] <= 90)

\* ascending, repetitions allowed
Ascending(l) == \A k \in 1..(Len(l) - 1) : ~StrLess(l[k + 1], l[k])

\* ascending without repetition
StrictlyAscending(l) == \A k \in 1..(Len(l) - 1) : StrLess(l[k], l[k + 1])

\* how often x is in l
Count(l, x) == Cardinality({k \in 1..Len(l) : l[k] = x})

\* the run has passed the loop and the two removeDuplicates calls
Finalized == pc \in {"encode", "write", "done", "fatal"}

\* the key the group of the project of the last iteration is stored under
LastKey == getProjectOrg(projects[i - 1])[2]

\* C1: after the run every nickname of every people group, the two
\* pseudo-groups included, and every key of the person mapping is lowercase.
C1_AllLowercase ==
    pc = "done" =>
        /\ \A g \in DOMAIN Org : \A k \in 1..Len(Org[g]) : IsLower(Org[g][k])
        /\ \A n \in DOMAIN People : IsLower(n)

\* C2: in the model handed to the serializer every people group is sorted
\* ascending and holds no nickname twice.
C2_SortedNoDuplicates ==
    Finalized => \A g \in DOMAIN Org : StrictlyAscending(Org[g])

\* C3: in the final model every nickname of every people group is a key of
\* the person mapping.
C3_GroupsInPeople ==
    pc = "done" =>
        \A g \in DOMAIN Org : \A k \in 1..Len(Org[g]) : Org[g][k] \in DOMAIN People

\* C4: the person mapping holds, for every lowercase nickname that a
\* successfully processed project declared, a record that the last such
\* project in the configured order declared for it, and holds nothing else.
C4_LastWriterWins ==
    /\ DOMAIN People = DOMAIN lastRec
    /\ \A n \in DOMAIN People : People[n] \in lastRec[n]

\* two projects declared "tom" with different records, the later one won
C4_Witness ==
    /\ pc = "done"
    /\ tom \in DOMAIN People
    /\ everRec[tom] = {"p", "q"}
    /\ lastRec[tom] = {"q"}
    /\ People[tom] = "q"

\* C5: an iteration in which getMaintainers fails leaves the groups and the
\* person mapping as they were and the loop goes on with the next project.
C5_FailureLeavesModel ==
    [][(pc = "loop" /\ i <= Len(projects) /\ err')
        => (Org' = Org /\ People' = People /\ pc' = "loop" /\ i' = i + 1)]_vars

\* the second project failed and the third was merged after it
C5_Witness ==
    /\ pc = "done"
    /\ DOMAIN Org = {Curators, DocsMaintainers, getProjectOrg(projects[1])[2],
                     getProjectOrg(projects[3])[2]}
    /\ Org[getProjectOrg(projects[3])[2]] = <<amy, tom>>

\* C6 as stated: the process exits non-zero only on the write failure.
C6_FatalOnlyOnWrite == exitCode = 1 => cause = "write"

\* C6 as amended: the run exits non-zero only when the encoding or the write
\* fails; whatever fails in the loop, every configured project is visited
\* once in order before the dedupe, and a run that ends without either
\* failure exits with status 0.
C6_FatalOnlyOnEncodeOrWrite ==
    /\ visited = SubSeq(projects, 1, i - 1)
    /\ pc # "loop" => visited = projects
    /\ exitCode = 1 <=> pc = "fatal"
    /\ exitCode = 0 <=> pc = "done"
    /\ pc = "fatal" => cause \in {"encode", "write"}
    /\ pc = "done" => cause = ""

\* every project failed and the run still wrote the file and exited with 0
C6_Witness ==
    /\ pc = "done"
    /\ exitCode = 0
    /\ visited = projects
    /\ err
    /\ DOMAIN Org = {Curators, DocsMaintainers}

\* C7: the group stored for a decoded file is the lowercased, sorted copy
\* of one list: the primary list when the primary group is present, else
\* the legacy list when that group is present, else the empty list.
C7_PrimaryOverLegacy ==
    (pc = "loop" /\ i > 1 /\ ~err) =>
        LET src == IF maintainers.Maintainers.present
                   THEN maintainers.Maintainers.People
                   ELSE IF maintainers.CoreMaintainers.present
                        THEN maintainers.CoreMaintainers.People
                        ELSE <<>>
            g == Org[LastKey]
        IN  /\ Ascending(g)
            /\ Len(g) = Len(src)
            /\ \A n \in Nicks : Count(g, ToLower(n)) = Count(ToLower2(src), ToLower(n))
            /\ \A k \in 1..Len(g) : IsLower(g[k])

\* a present but empty primary group beside a legacy group with people
C7_Witness ==
    /\ pc = "loop" /\ i > 1 /\ ~err
    /\ maintainers.Maintainers.present
    /\ maintainers.Maintainers.People = <<>>
    /\ maintainers.CoreMaintainers.present
    /\ maintainers.CoreMaintainers.People = <<Tom, amy>>
    /\ Org[LastKey] = <<>>

\* C8: removeDuplicates(s) is ascending without repetition, holds exactly
\* the elements of s, and removeDuplicates of it is the same list.
C8_RemoveDuplicates ==
    /\ pc = "ret" =>
          /\ StrictlyAscending(uniqs)
          /\ {uniqs[k] : k \in 1..Len(uniqs)} = {slice[k] : k \in 1..Len(slice)}
    /\ pc = "again" => uniqs = slice /\ StrictlyAscending(uniqs)

\* "tom", "Tom", "tom" comes back as "Tom", "tom"
C8_Witness ==
    /\ pc = "ret"
    /\ slice = <<tom, Tom, tom>>
    /\ uniqs = <<Tom, tom>>

\* C9: getProjectOrg yields the default organisation and the identifier
\* when it has no "/", else the parts before and after its first "/"; and
\* the group is stored under the project part.
C9_GetProjectOrg ==
    /\ pc \in {"ret", "stored"} =>
          /\ Len(split) = 2
          /\ (\A k \in 1..Len(ident) : ident[k] # Slash)
                => split = <<defaultOrg, ident>>
          /\ (\E k \in 1..Len(ident) : ident[k] = Slash)
                => /\ split[1] \o <<Slash>> \o split[2] = ident
                   /\ \A k \in 1..Len(split[1]) : split[1][k] # Slash
    /\ pc = "stored" => DOMAIN Org = {Curators, DocsMaintainers, split[2]}

\* "a/b/" is split into "a" and "b/", and the group is stored under "b/"
C9_Witness ==
    /\ pc = "stored"
    /\ ident = <<97, Slash, 98, Slash>>
    /\ split = << <<97>>, <<98, Slash>> >>
    /\ <<98, Slash>> \in DOMAIN Org
    /\ ident \notin DOMAIN Org

\* C10: after the loop the two pseudo-groups are the ascending lists of the
\* distinct strings, as decoded, of the curators and of the docs-maintainers
\* lists of the merged projects.
C10_PseudoGroups ==
    Finalized =>
        /\ StrictlyAscending(Org[Curators])
        /\ {Org[Curators][k] : k \in 1..Len(Org[Curators])} = curSeen
        /\ StrictlyAscending(Org[DocsMaintainers])
        /\ {Org[DocsMaintainers][k] : k \in 1..Len(Org[DocsMaintainers])} = docsSeen

\* "Tom" and "tom" of two projects are both kept
C10_Witness ==
    /\ pc = "done"
    /\ Org[Curators] = <<Tom, tom>>
    /\ maintainers.Curators.People = <<Tom>>

====
